---------------------------- MODULE Spec2Model ----------------------------
(***************************************************************************)
(* Model of app/syslog_server.py: an RFC5424 / RFC6587 syslog TCP server   *)
(* that matches every received line against configured rules and fires a   *)
(* webhook per matching rule (plus an unconditional test webhook in test   *)
(* mode).                                                                  *)
(*                                                                         *)
(* Text is a sequence of character tokens.  A token is one character,      *)
(* except "HDR", which stands for a complete well formed RFC5424 header    *)
(* with structured data ("<14>1 2026-01-19T18:05:51+08:00 host app 123 -   *)
(* -"), "U+00B2", the character SUPERSCRIPT TWO, and "\\xff", a byte that  *)
(* is not valid UTF-8.                                                     *)
(***************************************************************************)
EXTENDS Integers, Sequences, FiniteSets, TLC

VARIABLES
    phase,         \* the process: "boot", "loaded", "serving", "aborted"
    cfg,           \* the content of /config/config.json
    RULES,         \* module global RULES (rules with compiled_regex)
    TEST_MODE,     \* module global TEST_MODE
    TEST_WEBHOOK,  \* module global TEST_WEBHOOK (None or a target)
    env,           \* what the peers may do: connections, lines in all, line pool
    pc,            \* per connection: where its handler thread stands
    raw_line,      \* per connection: the line the reader delivered last
    event,         \* per connection: the parser's result for that line
    ri,            \* per connection: match_rules' position in RULES
    evaluated,     \* per connection: the rules searched for that line
    lineNo,        \* per connection: the number of lines read so far
    linelog,       \* per connection: log records since the last read
    sent,          \* per connection: every POST issued, in order
    nErr,          \* per connection: line-level exceptions logged
    nClosed,       \* per connection: "connection closed" records logged
    escaped,       \* per connection: the exception that left handle, if any
    received,      \* per connection: every line the reader delivered
    outcomes,      \* per connection: how the POSTs of that line ended
    nReturned,     \* per connection: the POST calls that have returned
    failedEarlier, \* per connection: a POST of an earlier line raised
    dec            \* the frame decoder run on its own: input, output

vars == <<phase, cfg, RULES, TEST_MODE, TEST_WEBHOOK, env, pc, raw_line,
          event, ri, evaluated, lineNo, linelog, sent, nErr, nClosed,
          escaped, received, outcomes, nReturned, failedEarlier, dec>>

globals == <<cfg, RULES, TEST_MODE, TEST_WEBHOOK, env>>

(***************************************************************************)
(* Bounds of the model.                                                    *)
(***************************************************************************)
MaxConn == 2

MaxLines == 2

MaxRules == 3

MaxLen == 4

(***************************************************************************)
(* Python values.                                                          *)
(***************************************************************************)
None == [none |-> TRUE]

Some(v) == [none |-> FALSE, v |-> v]

\* dict.get(key, default) on a JSON object
Get(d, key, default) == IF key \in DOMAIN d THEN d[key] ELSE default

(***************************************************************************)
(* Characters.                                                             *)
(***************************************************************************)
AsciiDigits == {"0", "1", "2", "3", "4", "5", "6", "7", "8", "9"}

\* str.isdigit() on one character: the ASCII digits and every other
\* character whose Unicode property Numeric_Type is Digit or Decimal,
\* SUPERSCRIPT TWO among them.
CharIsDigit(c) == c \in AsciiDigits \cup {"U+00B2"}

\* the characters str.strip() removes
Whitespace == {" ", "\n", "\t", "\r"}

Lower(c) == CASE c = "D" -> "d" [] c = "E" -> "e" [] OTHER -> c

(***************************************************************************)
(* str methods.                                                            *)
(***************************************************************************)
\* s.isdigit(): at least one character and all of them digits
isdigit(s) == Len(s) > 0 /\ \A i \in 1..Len(s) : CharIsDigit(s[i])

\* the position of the first sep in s, 0 when there is none
Find(s, sep) ==
    IF \E i \in 1..Len(s) : s[i] = sep
    THEN CHOOSE i \in 1..Len(s) : s[i] = sep /\ \A j \in 1..(i - 1) : s[j] # sep
    ELSE 0

\* s.split(sep, 1)
split1(s, sep) ==
    LET i == Find(s, sep)
    IN  IF i = 0 THEN <<s>> ELSE <<SubSeq(s, 1, i - 1), SubSeq(s, i + 1, Len(s))>>

\* s.strip()
strip(s) ==
    LET keep == {i \in 1..Len(s) : s[i] \notin Whitespace}
    IN  IF keep = {} THEN <<>>
        ELSE LET lo == CHOOSE i \in keep : \A j \in keep : i <= j
                 hi == CHOOSE i \in keep : \A j \in keep : j <= i
             IN  SubSeq(s, lo, hi)

\* bytes.decode("utf-8", errors="ignore"): invalid bytes are dropped
decode_utf8_ignore(b) == SelectSeq(b, LAMBDA c : c # "\\xff")

(***************************************************************************)
(* strip_octet_counting                                                    *)
(***************************************************************************)
strip_octet_counting(msg) ==
    IF msg = <<>> THEN msg
    ELSE IF CharIsDigit(msg[1])
         THEN LET parts == split1(msg, " ")
              IN  IF Len(parts) = 2 /\ isdigit(parts[1]) THEN parts[2] ELSE msg
         ELSE msg

(***************************************************************************)
(* The external collaborators: re and syslog_rfc5424_parser.               *)
(***************************************************************************)
\* re.compile(regex, re.IGNORECASE) raises re.error on an invalid pattern.
\* The patterns of the model are literal texts, and "(" is the invalid one.
RegexValid(regex) == \A i \in 1..Len(regex) : regex[i] # "("

\* compiled_regex.search(text) for a literal pattern compiled with
\* re.IGNORECASE: the pattern occurs somewhere in the text, whatever the case
Search(regex, text) ==
    \E k \in 0..(Len(text) - Len(regex)) :
        \A i \in 1..Len(regex) : Lower(text[k + i]) = Lower(regex[i])

\* SyslogMessage.parse(message).as_dict(): a ParseError unless the message
\* is a header, alone or followed by a space and the message text.  The
\* dict's "msg" is None when the line carries no message text.
Parse(message) ==
    IF message = <<"HDR">>
    THEN [ok |-> TRUE, msg |-> None]
    ELSE IF Len(message) >= 3 /\ message[1] = "HDR" /\ message[2] = " "
         THEN [ok |-> TRUE, msg |-> Some(SubSeq(message, 3, Len(message)))]
         ELSE [ok |-> FALSE, msg |-> None]

NoEvent == [ok |-> FALSE, msg |-> None]

(***************************************************************************)
(* Configuration files and peers of the model.                             *)
(***************************************************************************)
RuleDisk ==
    [name |-> "disk", regex |-> <<"d">>,
     webhook |-> [url |-> "http://x/hook", title |-> "Alert"]]

RuleErr ==
    [name |-> "err", regex |-> <<"E">>,
     webhook |-> [url |-> "http://y/hook", title |-> "Err", url_field |-> "link"]]

RuleBad ==
    [name |-> "bad", regex |-> <<"(">>, webhook |-> [url |-> "http://z/hook"]]

TestHook == [url |-> "http://t/hook", title |-> "Test"]

RulePool == {RuleDisk, RuleErr, RuleBad}

RuleLists(n) == UNION {[1..k -> RulePool] : k \in 0..n}

\* there is no file at CONFIG_PATH
MissingConfig ==
    [exists |-> FALSE, valid |-> FALSE, rules |-> <<>>, test_mode |-> FALSE,
     test_webhook |-> None]

\* the file at CONFIG_PATH is not JSON
InvalidConfig ==
    [exists |-> TRUE, valid |-> FALSE, rules |-> <<>>, test_mode |-> FALSE,
     test_webhook |-> None]

Configs(n) ==
    {[exists |-> TRUE, valid |-> TRUE, rules |-> r, test_mode |-> t,
      test_webhook |-> w] :
        r \in RuleLists(n), t \in BOOLEAN, w \in {None, Some(TestHook)}}
    \cup {MissingConfig, InvalidConfig}

\* the lines a peer may send
LineDisk == <<"HDR", " ", "d", "\n">>

LineFramed == <<"5", " ", "HDR", " ", "D", "\\xff", "e", "\n">>

LineNoMsg == <<"HDR", "\n">>

\* not a syslog message, though its text matches rule disk
LineMalformed == <<"d", "\n">>

LineBlank == <<" ", "\n">>

LinePool == {LineDisk, LineFramed, LineNoMsg, LineMalformed, LineBlank}

Conns == 1..MaxConn

(***************************************************************************)
(* load_config and the module globals                                      *)
(***************************************************************************)
\* every rule is compiled where it is used, at match time: load_config
\* only reads the file
ConfigLoads_CompilesLater(c) == c.exists /\ c.valid

\* load_config returns: the file exists, json.load accepts it and
\* re.compile accepts every rule's regex
ConfigLoads(c) ==
    c.exists /\ c.valid /\ \A i \in 1..Len(c.rules) : RegexValid(c.rules[i].regex)

Compiled(rule) ==
    [name |-> rule.name, regex |-> rule.regex, webhook |-> rule.webhook,
     compiled_regex |-> rule.regex]

load_config ==
    /\ phase = "boot"
    /\ ConfigLoads(cfg)
    /\ RULES' = [i \in 1..Len(cfg.rules) |-> Compiled(cfg.rules[i])]
    /\ TEST_MODE' = cfg.test_mode
    /\ TEST_WEBHOOK' = cfg.test_webhook
    /\ phase' = "loaded"
    /\ UNCHANGED <<cfg, env, pc, raw_line, event, ri, evaluated, lineNo, linelog,
                   sent, nErr, nClosed, escaped, received, outcomes,
                   nReturned, failedEarlier, dec>>

load_config_raises ==
    /\ phase = "boot"
    /\ ~ConfigLoads(cfg)
    /\ phase' = "aborted"
    /\ UNCHANGED <<globals, pc, raw_line, event, ri, evaluated, lineNo, linelog,
                   sent, nErr, nClosed, escaped, received, outcomes,
                   nReturned, failedEarlier, dec>>

main ==
    /\ phase = "loaded"
    /\ phase' = "serving"
    /\ UNCHANGED <<globals, pc, raw_line, event, ri, evaluated, lineNo, linelog,
                   sent, nErr, nClosed, escaped, received, outcomes,
                   nReturned, failedEarlier, dec>>

(***************************************************************************)
(* ThreadedTCPServer: serve_forever accepts a connection and runs its      *)
(* handler in a thread of its own; an exception that leaves the handler    *)
(* goes to handle_error in that thread.                                    *)
(***************************************************************************)
\* a server without ThreadingMixIn: the accept loop runs each handler itself
CanAccept_Serial(c) ==
    /\ phase = "serving"
    /\ c <= env.conns
    /\ pc[c] = "idle"
    /\ \A b \in 1..(c - 1) : pc[b] \in {"closed", "crashed"}

CanAccept(c) ==
    /\ phase = "serving"
    /\ c <= env.conns
    /\ pc[c] = "idle"
    /\ \A b \in 1..(c - 1) : pc[b] # "idle"

\* an exception that leaves a handler ends serve_forever
PhaseAfterHandlerError_Stops == "stopped"

PhaseAfterHandlerError == "serving"

Accept(c) ==
    /\ CanAccept(c)
    /\ pc' = [pc EXCEPT ![c] = "read"]
    /\ linelog' = [linelog EXCEPT ![c] = <<<<"info", "connected">>>>]
    /\ UNCHANGED <<phase, globals, raw_line, event, ri, evaluated, lineNo, sent,
                   nErr, nClosed, escaped, received, outcomes,
                   nReturned, failedEarlier, dec>>

(***************************************************************************)
(* SyslogTCPHandler                                                        *)
(***************************************************************************)
Log(c, recs) == [linelog EXCEPT ![c] = @ \o recs]

\* the for loop without its try statement: the exception leaves handle
AfterLineException_Escapes == "crashed"

\* where handle resumes after its except block
AfterLineException == "read"

\* the except block of handle, for an exception raised while
\* processing a line (raw_message is not empty there)
LineException(c, log0) ==
    /\ linelog' = [linelog EXCEPT ![c] =
           log0 \o <<<<"error", "line_failed">>, <<"error", "raw">>,
                     <<"error", "exception">>>>]
    /\ nErr' = [nErr EXCEPT ![c] = @ + 1]
    /\ pc' = [pc EXCEPT ![c] = AfterLineException]
    /\ escaped' =
           IF AfterLineException = "crashed" THEN [escaped EXCEPT ![c] = "line"]
           ELSE escaped
    /\ phase' =
           IF AfterLineException = "crashed" THEN PhaseAfterHandlerError ELSE phase

\* the lines the peers have sent so far, over connections 1..n
RECURSIVE LinesRead(_)
LinesRead(n) == IF n = 0 THEN 0 ELSE lineNo[n] + LinesRead(n - 1)

\* notifications sent without waiting: the next line is read while a
\* rule's POST is still in flight
CanRead_WhilePosting(c) == pc[c] \in {"read", "rule_post"}

\* the line reader may deliver the next line
CanRead(c) == pc[c] = "read"

ReadLine(c, raw) ==
    /\ CanRead(c)
    /\ LinesRead(MaxConn) < env.lines
    /\ raw \in env.pool
    /\ raw_line' = [raw_line EXCEPT ![c] = raw]
    /\ lineNo' = [lineNo EXCEPT ![c] = @ + 1]
    /\ event' = [event EXCEPT ![c] = NoEvent]
    /\ ri' = [ri EXCEPT ![c] = 0]
    /\ evaluated' = [evaluated EXCEPT ![c] = {}]
    /\ linelog' = [linelog EXCEPT ![c] = <<>>]
    /\ received' = [received EXCEPT ![c] = Append(@, raw)]
    /\ failedEarlier' = [failedEarlier EXCEPT ![c] =
           @ \/ \E k \in 1..Len(outcomes[c]) : ~outcomes[c][k]]
    /\ outcomes' = [outcomes EXCEPT ![c] = <<>>]
    /\ pc' = [pc EXCEPT ![c] = "line"]
    /\ UNCHANGED <<phase, globals, sent, nErr, nClosed, escaped, nReturned, dec>>

\* the stream ends: the for loop is left and "connection closed" is logged
ReadEOF(c) ==
    /\ pc[c] = "read"
    /\ pc' = [pc EXCEPT ![c] = "closed"]
    /\ linelog' = Log(c, <<<<"info", "closed">>>>)
    /\ nClosed' = [nClosed EXCEPT ![c] = @ + 1]
    /\ UNCHANGED <<phase, globals, raw_line, event, ri, evaluated, lineNo, sent,
                   nErr, escaped, received, outcomes, nReturned, failedEarlier, dec>>

\* reading raises (the peer reset the connection): the for statement is
\* outside the try block, so the exception leaves handle
ReadError(c) ==
    /\ pc[c] = "read"
    /\ pc' = [pc EXCEPT ![c] = "crashed"]
    /\ escaped' = [escaped EXCEPT ![c] = "read"]
    /\ phase' = PhaseAfterHandlerError
    /\ UNCHANGED <<globals, raw_line, event, ri, evaluated, lineNo, linelog, sent,
                   nErr, nClosed, received, outcomes, nReturned, failedEarlier, dec>>

\* the test webhook fired only when there are rules to match
TestHookEnabled_NeedsRules == TEST_MODE /\ ~TEST_WEBHOOK.none /\ RULES # <<>>

TestHookEnabled == TEST_MODE /\ ~TEST_WEBHOOK.none

TestPayload(ev) ==
    [title |-> Get(TEST_WEBHOOK.v, "title", "Syslog test"),
     msg |-> ev.msg,
     url |-> Get(TEST_WEBHOOK.v, "url_field", "")]

\* the payload's url is the address the request goes to
RulePayload_UrlIsTarget(rule, ev) ==
    [title |-> Get(Get(rule, "webhook", <<>>), "title", "Syslog alert"),
     msg |-> ev.msg,
     url |-> rule.webhook.url]

RulePayload(rule, ev) ==
    [title |-> Get(Get(rule, "webhook", <<>>), "title", "Syslog alert"),
     msg |-> ev.msg,
     url |-> Get(Get(rule, "webhook", <<>>), "url_field", "")]

\* where handle stands once rule i is dealt with: at rule i + 1, or back
\* at the line reader after the last rule
AtRule(c, i) ==
    /\ pc' = [pc EXCEPT ![c] = IF i > Len(RULES) THEN "read" ELSE "match"]
    /\ ri' = [ri EXCEPT ![c] = i]

\* every line goes on to the decoder and the parser
is_empty_Never(raw_message) == FALSE

\* "not raw_message": nothing is left of the line once it is stripped
is_empty(raw_message) == raw_message = <<>>

\* the parser's failure is taken for an event without fields
parse_raises_Never(ev) == FALSE

\* SyslogMessage.parse raises ParseError, which ends the try block
parse_raises(ev) == ~ev.ok

\* one line, from decoding to the first call that blocks
ProcessLine(c) ==
    /\ pc[c] = "line"
    /\ LET raw_message == strip(decode_utf8_ignore(raw_line[c]))
           log1 == IF TEST_MODE THEN <<<<"info", "test_raw">>>> ELSE <<>>
           ev == Parse(strip_octet_counting(raw_message))
       IN  IF is_empty(raw_message)
           THEN /\ pc' = [pc EXCEPT ![c] = "read"]
                /\ UNCHANGED <<phase, event, ri, linelog, sent, nErr, escaped>>
           ELSE IF parse_raises(ev)
           THEN /\ LineException(c, linelog[c] \o log1)
                /\ UNCHANGED <<event, ri, sent>>
           ELSE /\ event' = [event EXCEPT ![c] = ev]
                /\ linelog' = Log(c, log1 \o <<<<"info", "received">>>>)
                /\ IF TestHookEnabled
                   THEN /\ pc' = [pc EXCEPT ![c] = "test_post"]
                        /\ sent' = [sent EXCEPT ![c] = Append(@,
                               [line |-> lineNo[c], rule |-> 0,
                                to |-> TEST_WEBHOOK.v.url, payload |-> TestPayload(ev)])]
                        /\ UNCHANGED ri
                   ELSE /\ AtRule(c, 1)
                        /\ UNCHANGED sent
                /\ UNCHANGED <<phase, nErr, escaped>>
    /\ UNCHANGED <<globals, raw_line, evaluated, lineNo, nClosed, received, outcomes,
                   nReturned, failedEarlier, dec>>

\* trigger_test_webhook's try statement: what requests.post's outcome leads to
test_post_result(ok) ==
    [raises |-> FALSE,
     log |-> IF ok THEN <<"info", "test_sent">> ELSE <<"error", "test_failed">>]

\* the test webhook stands in for the rules: match_rules is not called
rule_after_test_None(rules) == Len(rules) + 1

\* the rule handle turns to after trigger_test_webhook returned:
\* match_rules is called all the same and starts at the first rule
rule_after_test(rules) == 1

\* requests.post returns or raises in trigger_test_webhook
TestPostReturn(c, ok) ==
    /\ pc[c] = "test_post"
    /\ LET r == test_post_result(ok)
       IN  IF r.raises
           THEN /\ LineException(c, linelog[c])
                /\ UNCHANGED ri
           ELSE /\ linelog' = Log(c, <<r.log>>)
                /\ AtRule(c, rule_after_test(RULES))
                /\ UNCHANGED <<phase, nErr, escaped>>
    /\ outcomes' = [outcomes EXCEPT ![c] = Append(@, ok)]
    /\ nReturned' = [nReturned EXCEPT ![c] = @ + 1]
    /\ UNCHANGED failedEarlier
    /\ UNCHANGED <<globals, raw_line, event, evaluated, lineNo, sent, nClosed, received,
                   dec>>

\* a rule keeps a record of having been looked at
rules_after_match_Marks(rules, i) ==
    [rules EXCEPT ![i] = [@ EXCEPT !.name = "seen"]]

\* RULES after match_rules dealt with rule i: match_rules and
\* trigger_rule_webhook only read the rule
rules_after_match(rules, i) == rules

\* one turn of match_rules' loop, up to the call that blocks
MatchRule(c) ==
    /\ pc[c] = "match"
    /\ LET rule == RULES[ri[c]]
       IN  IF event[c].msg.none
           THEN \* compiled_regex.search(None) raises TypeError
                /\ LineException(c, linelog[c])
                /\ UNCHANGED <<ri, evaluated, sent>>
           ELSE /\ evaluated' = [evaluated EXCEPT ![c] = @ \cup {ri[c]}]
                /\ IF Search(rule.compiled_regex, event[c].msg.v)
                   THEN /\ linelog' = Log(c, <<<<"warning", "hit", rule.name>>>>)
                        /\ pc' = [pc EXCEPT ![c] = "rule_post"]
                        /\ sent' = [sent EXCEPT ![c] = Append(@,
                               [line |-> lineNo[c], rule |-> ri[c],
                                to |-> rule.webhook.url,
                                payload |-> RulePayload(rule, event[c])])]
                        /\ UNCHANGED ri
                   ELSE /\ AtRule(c, ri[c] + 1)
                        /\ UNCHANGED <<linelog, sent>>
                /\ UNCHANGED <<phase, nErr, escaped>>
    /\ RULES' = rules_after_match(RULES, ri[c])
    /\ UNCHANGED <<cfg, TEST_MODE, TEST_WEBHOOK, env, raw_line, event, lineNo,
                   nClosed, received, outcomes, nReturned, failedEarlier, dec>>

\* trigger_rule_webhook without its try statement: a failure is raised
rule_post_result_Raises(name, ok) ==
    [raises |-> ~ok,
     log |-> IF ok THEN <<"info", "webhook_sent", name>>
                   ELSE <<"error", "webhook_failed", name>>]

\* trigger_rule_webhook's try statement: what requests.post's outcome leads to
rule_post_result(name, ok) ==
    [raises |-> FALSE,
     log |-> IF ok THEN <<"info", "webhook_sent", name>>
                   ELSE <<"error", "webhook_failed", name>>]

\* a failed delivery is tried again
next_rule_Retry(i, ok) == IF ok THEN i + 1 ELSE i

\* the rule match_rules turns to after trigger_rule_webhook(RULES[i]) returned
next_rule(i, ok) == i + 1

\* requests.post returns or raises in trigger_rule_webhook
RulePostReturn(c, ok) ==
    /\ pc[c] = "rule_post"
    /\ LET r == rule_post_result(RULES[ri[c]].name, ok)
       IN  IF r.raises
           THEN /\ LineException(c, linelog[c])
                /\ UNCHANGED ri
           ELSE /\ linelog' = Log(c, <<r.log>>)
                /\ AtRule(c, next_rule(ri[c], ok))
                /\ UNCHANGED <<phase, nErr, escaped>>
    /\ outcomes' = [outcomes EXCEPT ![c] = Append(@, ok)]
    /\ nReturned' = [nReturned EXCEPT ![c] = @ + 1]
    /\ UNCHANGED failedEarlier
    /\ UNCHANGED <<globals, raw_line, event, evaluated, lineNo, sent, nClosed, received,
                   dec>>

\* every step of connection c's handler thread after a line was read
LineStep(c) ==
    \/ ProcessLine(c)
    \/ MatchRule(c)
    \/ \E ok \in BOOLEAN : TestPostReturn(c, ok)
    \/ \E ok \in BOOLEAN : RulePostReturn(c, ok)

\* every step of connection c's handler thread
handle(c) ==
    \/ \E raw \in env.pool : ReadLine(c, raw)
    \/ ReadEOF(c)
    \/ ReadError(c)
    \/ LineStep(c)

(***************************************************************************)
(* The frame decoder on its own.                                           *)
(***************************************************************************)
DecChars == {"5", " ", "h", "U+00B2"}

Strings(n) == UNION {[1..k -> DecChars] : k \in 0..n}

DecIdle == [st |-> "idle", in |-> <<>>, out |-> <<>>, again |-> <<>>]

Decode ==
    /\ dec.st = "input"
    /\ dec' = [dec EXCEPT !.st = "done", !.out = strip_octet_counting(dec.in)]
    /\ UNCHANGED <<phase, globals, pc, raw_line, event, ri, evaluated, lineNo,
                   linelog, sent, nErr, nClosed, escaped, received, outcomes,
                   nReturned, failedEarlier>>

\* the decoder applied to its own result
Redecode ==
    /\ dec.st = "done"
    /\ dec' = [dec EXCEPT !.st = "again", !.again = strip_octet_counting(dec.out)]
    /\ UNCHANGED <<phase, globals, pc, raw_line, event, ri, evaluated, lineNo,
                   linelog, sent, nErr, nClosed, escaped, received, outcomes,
                   nReturned, failedEarlier>>

(***************************************************************************)
(* Specifications.                                                         *)
(***************************************************************************)
Boot(configs, e) ==
    /\ phase = "boot"
    /\ cfg \in configs
    /\ RULES = <<>>
    /\ TEST_MODE = FALSE
    /\ TEST_WEBHOOK = None
    /\ env = e
    /\ pc = [c \in Conns |-> "idle"]
    /\ raw_line = [c \in Conns |-> <<>>]
    /\ event = [c \in Conns |-> NoEvent]
    /\ ri = [c \in Conns |-> 0]
    /\ evaluated = [c \in Conns |-> {}]
    /\ lineNo = [c \in Conns |-> 0]
    /\ linelog = [c \in Conns |-> <<>>]
    /\ sent = [c \in Conns |-> <<>>]
    /\ nErr = [c \in Conns |-> 0]
    /\ nClosed = [c \in Conns |-> 0]
    /\ escaped = [c \in Conns |-> ""]
    /\ received = [c \in Conns |-> <<>>]
    /\ outcomes = [c \in Conns |-> <<>>]
    /\ nReturned = [c \in Conns |-> 0]
    /\ failedEarlier = [c \in Conns |-> FALSE]

\* one connection, every configuration, every line
Init ==
    /\ Boot(Configs(MaxRules), [conns |-> 1, lines |-> MaxLines, pool |-> LinePool])
    /\ dec = DecIdle

Next ==
    \/ load_config
    \/ load_config_raises
    \/ main
    \/ \E c \in Conns : Accept(c)
    \/ \E c \in Conns : handle(c)

Spec == Init /\ [][Next]_vars

\* concurrent connections
ConcConfigs ==
    {[exists |-> TRUE, valid |-> TRUE, rules |-> r, test_mode |-> t,
      test_webhook |-> Some(TestHook)] :
        r \in {<<RuleDisk>>, <<RuleBad>>}, t \in BOOLEAN}

ConcInit ==
    /\ Boot(ConcConfigs,
            [conns |-> MaxConn, lines |-> MaxLines,
             pool |-> {LineDisk, LineMalformed}])
    /\ dec = DecIdle

ConcSpec == ConcInit /\ [][Next]_vars

\* concurrent connections, every handler thread but that of connection 1
\* being scheduled until its line is done (requests.post is called with
\* timeout=5); connection 1 may stay in a POST forever
FairSpec ==
    ConcInit /\ [][Next]_vars /\ \A c \in Conns \ {1} : WF_vars(LineStep(c))

\* the frame decoder on every text of at most MaxLen characters
DecInit ==
    /\ Boot({MissingConfig}, [conns |-> 0, lines |-> 0, pool |-> {}])
    /\ dec \in {[st |-> "input", in |-> s, out |-> <<>>, again |-> <<>>] :
                   s \in Strings(MaxLen)}

DecNext == Decode \/ Redecode

DecSpec == DecInit /\ [][DecNext]_vars


(***************************************************************************)
(* What a line is and what it calls for, read off its text.                *)
(***************************************************************************)
Text(raw) == strip(decode_utf8_ignore(raw))

Parsed(raw) == Parse(strip_octet_counting(Text(raw)))

\* "blank", "malformed", "notext" (parsed, no message text) or "text"
Kind(raw) ==
    LET t == Text(raw)
        p == Parse(strip_octet_counting(t))
    IN  IF t = <<>> THEN "blank"
        ELSE IF ~p.ok THEN "malformed"
        ELSE IF p.msg.none THEN "notext" ELSE "text"

Blank(raw) == Kind(raw) = "blank"

ParsesOk(raw) == Kind(raw) \in {"notext", "text"}

Malformed(raw) == Kind(raw) = "malformed"

HasText(raw) == Kind(raw) = "text"

\* the rules whose pattern matches the line's message text
MatchingRules(raw) ==
    LET p == Parsed(raw)
    IN  IF HasText(raw)
        THEN {i \in 1..Len(RULES) : Search(RULES[i].regex, p.msg.v)}
        ELSE {}

\* test mode is on and a test target is configured
TestTargetOn == TEST_MODE /\ ~TEST_WEBHOOK.none

\* the POSTs connection c issued for its n-th line, by rule (0: the test target)
PostsOf(c, n) ==
    LET q == SelectSeq(sent[c], LAMBDA p : p.line = n)
    IN  [k \in 1..Len(q) |-> q[k].rule]

RulePostsOf(c, n) == SelectSeq(PostsOf(c, n), LAMBDA r : r # 0)

Increasing(q) == \A i, j \in 1..Len(q) : i < j => q[i] < q[j]

Range(q) == {q[i] : i \in 1..Len(q)}

\* q lists the members of S in ascending order, each once
Lists(q, S) == Increasing(q) /\ Range(q) = S

\* the handler thread of c is between two lines, or gone
AtRest(c) == pc[c] \in {"read", "closed", "crashed"}

Posting(c) == pc[c] \in {"test_post", "rule_post"}

LineIndexes(c) == 1..Len(received[c])

Count(q, P(_)) == Cardinality({i \in 1..Len(q) : P(q[i])})

IsFailureRecord(r) ==
    r[1] = "error" /\ r[2] \in {"test_failed", "webhook_failed"}

IsExceptionRecord(r) == r = <<"error", "exception">>

(***************************************************************************)
(* C1: a line whose parsing fails never ends its session: the connection   *)
(* stays open, every later line is still read and processed, and each      *)
(* malformed line is logged as one failure.  One malformed line followed   *)
(* by one well formed line that matches a rule gives one logged failure    *)
(* and one notification.                                                   *)
(***************************************************************************)
C1_MalformedLineKeepsSession ==
    \A c \in Conns :
        /\ escaped[c] # "line"
        /\ pc[c] = "closed" => nClosed[c] = 1
        /\ (pc[c] = "read" /\ lineNo[c] > 0 /\ Malformed(raw_line[c])) =>
               /\ Count(linelog[c], IsExceptionRecord) = 1
               /\ PostsOf(c, lineNo[c]) = <<>>
        /\ AtRest(c) =>
               /\ Len(received[c]) = lineNo[c]
               /\ nErr[c] = Count(received[c], Malformed)
                            + IF RULES = <<>> THEN 0
                              ELSE Count(received[c], LAMBDA l : ParsesOk(l) /\ ~HasText(l))
               /\ \A i \in LineIndexes(c) :
                      HasText(received[c][i]) =>
                          Lists(RulePostsOf(c, i), MatchingRules(received[c][i]))

C1_Witness ==
    \E c \in Conns :
        /\ received[c] = <<LineMalformed, LineDisk>>
        /\ RULES = <<Compiled(RuleDisk)>>
        /\ ~TestTargetOn
        /\ pc[c] = "read"
        /\ nErr[c] = 1
        /\ Len(sent[c]) = 1
        /\ sent[c][1].line = 2

(***************************************************************************)
(* C2: for every successfully parsed line match_rules evaluates every rule *)
(* and the rule notifications of the line are, in configuration order and  *)
(* once each, the rules whose pattern matches the message text.            *)
(***************************************************************************)
C2_EveryRuleEvaluatedInOrder ==
    \A c \in Conns :
        AtRest(c) =>
            /\ \A i \in LineIndexes(c) :
                   ParsesOk(received[c][i]) =>
                       Lists(RulePostsOf(c, i), MatchingRules(received[c][i]))
            /\ (lineNo[c] > 0 /\ ParsesOk(raw_line[c])) =>
                   evaluated[c] = 1..Len(RULES)

(***************************************************************************)
(* C3: a delivery that fails, of the test notification or of a rule        *)
(* notification, is logged and ends there: it never reaches the line's     *)
(* exception handler, the remaining rules of the line are evaluated and    *)
(* their notifications sent, and the later lines are processed, exactly as *)
(* if the delivery had succeeded.                                          *)
(***************************************************************************)
C3_DeliveryFailureContained ==
    \A c \in Conns :
        /\ escaped[c] # "line"
        /\ Count(linelog[c], IsFailureRecord) = Count(outcomes[c], LAMBDA ok : ~ok)
        /\ (lineNo[c] > 0 /\ HasText(raw_line[c])) =>
               Count(linelog[c], IsExceptionRecord) = 0
        /\ (AtRest(c) /\ lineNo[c] > 0 /\ HasText(raw_line[c])) =>
               evaluated[c] = 1..Len(RULES)
        /\ AtRest(c) =>
               \A i \in LineIndexes(c) :
                   ParsesOk(received[c][i]) =>
                       Lists(PostsOf(c, i),
                             MatchingRules(received[c][i])
                                 \cup IF TestTargetOn THEN {0} ELSE {})

C3_Witness ==
    \E c \in Conns :
        /\ pc[c] = "read"
        /\ lineNo[c] = 2
        /\ failedEarlier[c]
        /\ outcomes[c] = <<FALSE, TRUE>>
        /\ PostsOf(c, 1) = <<0, 1, 2>>
        /\ PostsOf(c, 2) = <<0, 1>>

(***************************************************************************)
(* C4 as stated: for every line, the POSTs issued equal the number of      *)
(* matching rules plus one if test mode is on with a test target.          *)
(***************************************************************************)
C4_PostsForEveryLine ==
    \A c \in Conns :
        AtRest(c) =>
            \A i \in LineIndexes(c) :
                Len(PostsOf(c, i)) =
                    Cardinality(MatchingRules(received[c][i]))
                    + IF TestTargetOn THEN 1 ELSE 0

(***************************************************************************)
(* C4 as amended: every notifier call makes one request and none is        *)
(* retried or queued: for every successfully parsed line the POSTs issued  *)
(* equal the number of rules matching its message text plus one if test    *)
(* mode is on with a test target, whichever deliveries fail; a line that   *)
(* is blank or fails to parse issues none.                                 *)
(***************************************************************************)
C4_PostsForParsedLines ==
    \A c \in Conns :
        /\ Len(sent[c]) = nReturned[c] + IF Posting(c) THEN 1 ELSE 0
        /\ AtRest(c) =>
               \A i \in LineIndexes(c) :
                   Len(PostsOf(c, i)) =
                       IF ParsesOk(received[c][i])
                       THEN Cardinality(MatchingRules(received[c][i]))
                            + IF TestTargetOn THEN 1 ELSE 0
                       ELSE 0

C4_Witness ==
    \E c \in Conns :
        /\ pc[c] = "read"
        /\ received[c] = <<LineFramed, LineMalformed>>
        /\ TestTargetOn
        /\ Len(RULES) = 2
        /\ PostsOf(c, 1) = <<0, 1, 2>>
        /\ PostsOf(c, 2) = <<>>
        /\ failedEarlier[c]

(***************************************************************************)
(* C5: a connection's lines are processed one at a time in arrival order:  *)
(* while a line is in progress no other line is, every notification call   *)
(* of a line has returned before the next line is read, and the POSTs of   *)
(* the connection are ordered by line and then by rule.                    *)
(***************************************************************************)
C5_LinesInArrivalOrder ==
    \A c \in Conns :
        /\ Len(received[c]) = lineNo[c]
        /\ lineNo[c] > 0 => raw_line[c] = received[c][lineNo[c]]
        /\ \A k \in 1..Len(sent[c]) :
               /\ sent[c][k].line \in 1..lineNo[c]
               /\ k > 1 =>
                      \/ sent[c][k - 1].line < sent[c][k].line
                      \/ /\ sent[c][k - 1].line = sent[c][k].line
                         /\ sent[c][k - 1].rule < sent[c][k].rule
        /\ Posting(c) =>
               /\ Len(sent[c]) = nReturned[c] + 1
               /\ sent[c][Len(sent[c])].line = lineNo[c]
        /\ ~Posting(c) => Len(sent[c]) = nReturned[c]
        /\ \A i \in LineIndexes(c) :
               (i < lineNo[c] /\ ParsesOk(received[c][i])) =>
                   Lists(PostsOf(c, i),
                         MatchingRules(received[c][i])
                             \cup IF TestTargetOn THEN {0} ELSE {})

C5_Witness ==
    \E c \in Conns :
        /\ pc[c] = "rule_post"
        /\ lineNo[c] = 2
        /\ [k \in 1..Len(sent[c]) |-> <<sent[c][k].line, sent[c][k].rule>>]
               = <<<<1, 1>>, <<1, 3>>, <<2, 1>>, <<2, 2>>>>

(***************************************************************************)
(* C6: a session that is inside a notification call never keeps another   *)
(* session from being accepted, reading, parsing, matching and notifying:  *)
(* the other session's next step is enabled, none of its lines is dropped, *)
(* and, its thread being scheduled, every line it has read is processed    *)
(* to the end.                                                             *)
(***************************************************************************)
\* b is the connection the accept loop takes next
NextToAccept(b) ==
    b <= env.conns /\ pc[b] = "idle" /\ \A x \in 1..(b - 1) : pc[x] # "idle"

\* C6, the safety part: what holds of every other connection while a is
\* inside requests.post
C6_OthersEnabled ==
    \A a, b \in Conns :
        (a # b /\ Posting(a)) =>
            /\ NextToAccept(b) => ENABLED Accept(b)
            /\ pc[b] \in {"line", "match", "test_post", "rule_post"} =>
                   ENABLED LineStep(b)
            /\ (pc[b] = "read" /\ LinesRead(MaxConn) < env.lines) =>
                   \A raw \in env.pool : ENABLED ReadLine(b, raw)
            /\ AtRest(b) =>
                   \A i \in LineIndexes(b) :
                       Lists(PostsOf(b, i),
                             IF ParsesOk(received[b][i])
                             THEN MatchingRules(received[b][i])
                                      \cup IF TestTargetOn THEN {0} ELSE {}
                             ELSE {})

\* C6: while a session is inside a notification call the other sessions'
\* next steps stay enabled and none of their lines is dropped, and every line
\* another session has read is eventually processed to its end
C6_NoCrossBlocking ==
    /\ []C6_OthersEnabled
    /\ \A b \in Conns \ {1} : \A n \in 1..MaxLines :
           (pc[b] = "line" /\ lineNo[b] = n) ~> (pc[b] = "read" /\ lineNo[b] = n)

C6_Witness ==
    /\ pc[1] = "rule_post"
    /\ pc[2] = "read"
    /\ lineNo[2] = 1
    /\ PostsOf(2, 1) = <<0, 1>>
    /\ nReturned[2] = 2

(***************************************************************************)
(* C7: when the stream of a session ends, by the peer closing or by a read *)
(* error, the session is closed, "connection closed" is logged exactly     *)
(* once, after the last line in progress, and no error leaves the session. *)
(***************************************************************************)
C7_StreamEndClosesCleanly ==
    \A c \in Conns :
        pc[c] \in {"closed", "crashed"} =>
            /\ nClosed[c] = 1
            /\ linelog[c][Len(linelog[c])] = <<"info", "closed">>
            /\ escaped[c] = ""

(***************************************************************************)
(* C8: nothing that happens in one session stops the listener or changes  *)
(* another session: a step of one handler leaves the process and every     *)
(* other connection as they are, and once a session has ended, normally or *)
(* by an exception, the listener still accepts the next connection and the *)
(* other open sessions can still take their next step.                     *)
(***************************************************************************)
\* everything the model holds for connection c
OfConn(c) ==
    <<pc[c], raw_line[c], event[c], ri[c], evaluated[c], lineNo[c], linelog[c],
      sent[c], nErr[c], nClosed[c], escaped[c], received[c], outcomes[c],
      nReturned[c], failedEarlier[c]>>

\* C8, the listener: it serves as long as there are sessions, and after
\* any session ended it accepts and the other sessions can step
C8_ListenerServes ==
    /\ (\E c \in Conns : pc[c] # "idle") => phase = "serving"
    /\ \A c, b \in Conns :
           (b # c /\ pc[c] \in {"closed", "crashed"}) =>
               /\ NextToAccept(b) => ENABLED Accept(b)
               /\ pc[b] \notin {"idle", "closed", "crashed"} => ENABLED handle(b)

\* C8, the sessions: a step that changes connection c changes nothing else
C8_StepIsLocal ==
    \A c \in Conns :
        OfConn(c)' # OfConn(c) =>
            /\ phase' = phase
            /\ globals' = globals
            /\ \A b \in Conns \ {c} : OfConn(b)' = OfConn(b)

\* C8: no session stops the listener or changes another session
C8_SessionsIsolated == []C8_ListenerServes /\ [][C8_StepIsLocal]_vars

C8_Witness ==
    /\ pc[1] = "crashed"
    /\ escaped[1] = "read"
    /\ nErr[1] = 1
    /\ pc[2] = "rule_post"
    /\ phase = "serving"

(***************************************************************************)
(* C9: with test mode on, a test target configured and no rule, every      *)
(* successfully parsed line issues exactly one test notification and no    *)
(* rule notification.                                                      *)
(***************************************************************************)
C9_TestModeWithoutRules ==
    (TEST_MODE /\ ~TEST_WEBHOOK.none /\ RULES = <<>>) =>
        \A c \in Conns :
            /\ \A k \in 1..Len(sent[c]) :
                   /\ sent[c][k].rule = 0
                   /\ sent[c][k].to = TEST_WEBHOOK.v.url
            /\ \A i \in LineIndexes(c) :
                   (ParsesOk(received[c][i]) /\ (i < lineNo[c] \/ pc[c] # "line")) =>
                       PostsOf(c, i) = <<0>>

C9_Witness ==
    \E c \in Conns :
        /\ TEST_MODE /\ ~TEST_WEBHOOK.none /\ RULES = <<>>
        /\ phase = "serving"
        /\ pc[c] = "read"
        /\ received[c] = <<LineDisk, LineNoMsg>>
        /\ Len(sent[c]) = 2

(***************************************************************************)
(* C10: strip_octet_counting agrees with the reference decoder: a line     *)
(* that starts with an ASCII digit and whose text before the first space   *)
(* is all digits (it matches ^\d+ and a space) loses that prefix and the   *)
(* space; every other line, the empty one included, is returned unchanged. *)
(***************************************************************************)
\* the line matches ^\d+ followed by a space, the first character being
\* an ASCII digit (\d matches no character of category No, U+00B2 among them)
HasOctetCount(x) ==
    /\ Len(x) > 0
    /\ x[1] \in AsciiDigits
    /\ Find(x, " ") > 0
    /\ \A i \in 1..(Find(x, " ") - 1) : x[i] \in AsciiDigits

ReferenceDecode(x) ==
    IF HasOctetCount(x) THEN SubSeq(x, Find(x, " ") + 1, Len(x)) ELSE x

\* C10: the decoder's result is the reference decoder's on every input
C10_DecoderAgreesWithReference ==
    dec.st = "done" => dec.out = ReferenceDecode(dec.in)

(***************************************************************************)
(* C11: strip_octet_counting is not idempotent (a line with two successive *)
(* digit-space prefixes loses one at each application), but it is the      *)
(* identity on every line without a digit-space prefix (a line that does   *)
(* not match ^\d+ followed by a space): such a line is returned as it is,  *)
(* and so is the result when the decoder is applied to it again.           *)
(***************************************************************************)
\* C11, the instance: decoding the result again changes it
C11_SecondDecodeDiffers ==
    /\ dec.st = "again"
    /\ dec.in = <<"5", " ", "5", " ">>
    /\ dec.out = <<"5", " ">>
    /\ dec.again = <<>>

\* C11: without a digit-space prefix the decoder, applied once or twice,
\* returns the line
C11_IdentityOnDecodedLines ==
    (dec.st \in {"done", "again"} /\ ~HasOctetCount(dec.in)) =>
        /\ dec.out = dec.in
        /\ dec.st = "again" => dec.again = dec.out

(***************************************************************************)
(* C12: a startup error is fatal before any line is taken in.  When the    *)
(* configuration file is missing or is not JSON, or a rule's pattern does  *)
(* not compile, the process aborts: no connection is ever accepted and no  *)
(* line is ever processed.  Conversely, whenever a session exists every    *)
(* rule of RULES carries its compiled pattern.                             *)
(***************************************************************************)
\* the configuration holds a startup error
StartupError(c) ==
    \/ ~c.exists
    \/ ~c.valid
    \/ \E i \in 1..Len(c.rules) : \E k \in 1..Len(c.rules[i].regex) :
           c.rules[i].regex[k] = "("

\* connection c was never accepted and has taken in nothing
Untouched(c) ==
    /\ pc[c] = "idle"
    /\ lineNo[c] = 0
    /\ received[c] = <<>>
    /\ sent[c] = <<>>
    /\ linelog[c] = <<>>

\* rule carries a pattern that compiled
HasCompiledPattern(rule) ==
    /\ "compiled_regex" \in DOMAIN rule
    /\ \A k \in 1..Len(rule.compiled_regex) : rule.compiled_regex[k] # "("

C12_StartupErrorsFatal ==
    /\ StartupError(cfg) =>
           /\ phase \in {"boot", "aborted"}
           /\ RULES = <<>>
           /\ \A c \in Conns : Untouched(c)
    /\ phase = "aborted" => StartupError(cfg)
    /\ (\E c \in Conns : ~Untouched(c)) =>
           /\ phase = "serving"
           /\ Len(RULES) = Len(cfg.rules)
           /\ \A i \in 1..Len(RULES) : HasCompiledPattern(RULES[i])

C12_Witness ==
    /\ phase = "aborted"
    /\ cfg.exists /\ cfg.valid
    /\ cfg.rules = <<RuleDisk, RuleErr, RuleBad>>
    /\ \A c \in Conns : Untouched(c)

(***************************************************************************)
(* C13: every notification request carries a payload of exactly the three  *)
(* fields title, msg and url: the title configured for its target, the     *)
(* message text of the line's event, and the target's configured url_field *)
(* (the empty string when there is none); and it is sent to the target's   *)
(* own URL.  Rule disk (url http://x/hook, title Alert, no url_field) and  *)
(* a line whose message text matches it give one POST to http://x/hook     *)
(* with title Alert, the message text, and url "".                         *)
(***************************************************************************)
\* the target of a POST: the test target for rule 0, else the rule's webhook
TargetOf(r) == IF r = 0 THEN TEST_WEBHOOK.v ELSE RULES[r].webhook

C13_PayloadFromTargetAndEvent ==
    \A c \in Conns : \A k \in 1..Len(sent[c]) :
        LET p == sent[c][k]
            target == TargetOf(p.rule)
            ev == Parsed(received[c][p.line])
        IN  /\ DOMAIN p.payload = {"title", "msg", "url"}
            /\ "title" \in DOMAIN target => p.payload.title = target.title
            /\ p.payload.msg = ev.msg
            /\ p.payload.url =
                   IF "url_field" \in DOMAIN target THEN target.url_field ELSE ""
            /\ p.to = target.url

C13_Witness ==
    \E c \in Conns :
        /\ RULES = <<Compiled(RuleDisk)>>
        /\ ~TestTargetOn
        /\ pc[c] = "read"
        /\ received[c] = <<LineFramed>>
        /\ sent[c] = <<[line |-> 1, rule |-> 1, to |-> "http://x/hook",
                        payload |-> [title |-> "Alert",
                                     msg |-> Some(<<"D", "e">>),
                                     url |-> ""]]>>

(***************************************************************************)
(* C14: test mode and the rules are orthogonal and ordered.  With test     *)
(* mode on and a test target configured, a successfully parsed line that   *)
(* matches k rules issues exactly 1 + k notifications: the test            *)
(* notification first, then those of the k rules in configuration order.   *)
(* With test mode off, or on without a test target, no test notification   *)
(* is ever issued, and the rule notifications are the same in all cases.   *)
(***************************************************************************)
C14_TestThenRulesInOrder ==
    \A c \in Conns :
        /\ ~(TEST_MODE /\ ~TEST_WEBHOOK.none) =>
               \A k \in 1..Len(sent[c]) : sent[c][k].rule # 0
        /\ AtRest(c) =>
               \A i \in LineIndexes(c) :
                   ParsesOk(received[c][i]) =>
                       LET posts == PostsOf(c, i)
                           matching == MatchingRules(received[c][i])
                       IN  /\ Lists(RulePostsOf(c, i), matching)
                           /\ IF TEST_MODE /\ ~TEST_WEBHOOK.none
                              THEN /\ Len(posts) = 1 + Cardinality(matching)
                                   /\ posts[1] = 0
                                   /\ Tail(posts) = RulePostsOf(c, i)
                              ELSE posts = RulePostsOf(c, i)

C14_Witness ==
    \E c \in Conns :
        /\ TEST_MODE /\ ~TEST_WEBHOOK.none
        /\ RULES = <<Compiled(RuleErr), Compiled(RuleDisk), Compiled(RuleErr)>>
        /\ pc[c] = "read"
        /\ received[c] = <<LineDisk, LineFramed>>
        /\ PostsOf(c, 1) = <<0, 2>>
        /\ PostsOf(c, 2) = <<0, 1, 2, 3>>

(***************************************************************************)
(* C15: RULES, TEST_MODE and TEST_WEBHOOK are read-only once the server    *)
(* runs: no step of a session, whether it decodes, parses, matches,        *)
(* notifies or handles an error, changes the rules, their order, their     *)
(* compiled patterns or their targets, so every session finds in every     *)
(* state the rules as load_config built them.                              *)
(***************************************************************************)
\* C15, the state: the globals are what load_config made of the file
C15_ConfigAsLoaded ==
    phase = "serving" =>
        /\ Len(RULES) = Len(cfg.rules)
        /\ \A i \in 1..Len(RULES) :
               /\ RULES[i].name = cfg.rules[i].name
               /\ RULES[i].regex = cfg.rules[i].regex
               /\ RULES[i].compiled_regex = cfg.rules[i].regex
               /\ RULES[i].webhook = cfg.rules[i].webhook
        /\ TEST_MODE = cfg.test_mode
        /\ TEST_WEBHOOK = cfg.test_webhook

\* C15, the step: a step of a session leaves the globals as they are
C15_SessionStepKeepsConfig ==
    (\E c \in Conns : OfConn(c)' # OfConn(c)) =>
        /\ RULES' = RULES
        /\ TEST_MODE' = TEST_MODE
        /\ TEST_WEBHOOK' = TEST_WEBHOOK
        /\ cfg' = cfg

\* C15: after startup no session step changes the rules or the test-mode
\* configuration, which stay as they were loaded
C15_RuleSetReadOnly == []C15_ConfigAsLoaded /\ [][C15_SessionStepKeepsConfig]_vars

C15_Witness ==
    \E c \in Conns :
        /\ cfg.rules = <<RuleErr, RuleDisk>>
        /\ RULES = <<Compiled(RuleErr), Compiled(RuleDisk)>>
        /\ TEST_MODE /\ TEST_WEBHOOK = Some(TestHook)
        /\ pc[c] = "closed"
        /\ received[c] = <<LineFramed, LineMalformed>>
        /\ PostsOf(c, 1) = <<0, 1, 2>>
        /\ failedEarlier[c]
        /\ nErr[c] = 1

(***************************************************************************)
(* C16: no notification of any kind is issued for a line that the parser   *)
(* rejects: neither the test notification nor a rule notification, even    *)
(* when the raw text of the line matches a rule's pattern.                 *)
(***************************************************************************)
C16_NoPostForUnparsedLine ==
    \A c \in Conns :
        /\ \A k \in 1..Len(sent[c]) : ~Malformed(received[c][sent[c][k].line])
        /\ (lineNo[c] > 0 /\ Malformed(raw_line[c])) =>
               /\ ~Posting(c)
               /\ evaluated[c] = {}
               /\ PostsOf(c, lineNo[c]) = <<>>

C16_Witness ==
    \E c \in Conns :
        /\ TEST_MODE /\ ~TEST_WEBHOOK.none
        /\ RULES = <<Compiled(RuleDisk)>>
        /\ Search(RULES[1].compiled_regex, Text(LineMalformed))
        /\ received[c] = <<LineDisk, LineMalformed>>
        /\ pc[c] = "read"
        /\ nErr[c] = 1
        /\ PostsOf(c, 1) = <<0, 1>>
        /\ PostsOf(c, 2) = <<>>

(***************************************************************************)
(* C17: a line that is empty once its whitespace is stripped is skipped in *)
(* silence: it reaches neither the decoder nor the parser, so that nothing *)
(* is logged for it, no parse failure either, and nothing is notified; the *)
(* session goes on to the next line.                                       *)
(***************************************************************************)
C17_BlankLineSkipped ==
    \A c \in Conns :
        /\ (lineNo[c] > 0 /\ Blank(raw_line[c])) =>
               /\ pc[c] \in {"line", "read", "closed", "crashed"}
               /\ event[c] = NoEvent
               /\ evaluated[c] = {}
               /\ pc[c] \in {"line", "read"} => linelog[c] = <<>>
               /\ (pc[c] = "read" /\ LinesRead(MaxConn) < env.lines) =>
                      \A raw \in env.pool : ENABLED ReadLine(c, raw)
        /\ \A i \in LineIndexes(c) :
               Blank(received[c][i]) => PostsOf(c, i) = <<>>
        /\ nErr[c] <= Count(received[c], LAMBDA l : ~Blank(l))

C17_Witness ==
    \E c \in Conns :
        /\ TEST_MODE /\ ~TEST_WEBHOOK.none
        /\ RULES = <<Compiled(RuleDisk)>>
        /\ received[c] = <<LineBlank, LineDisk>>
        /\ pc[c] = "read"
        /\ nErr[c] = 0
        /\ PostsOf(c, 1) = <<>>
        /\ PostsOf(c, 2) = <<0, 1>>

(***************************************************************************)
(* C18: a line that the parser accepts but that carries no message text is *)
(* handled as a line with empty message text: every rule is evaluated for  *)
(* it, no line-level exception is logged, and every notification sent for  *)
(* it carries a string in its msg field.                                   *)
(***************************************************************************)
\* the parser accepted the line and its event has no message text
NoText(raw) == Kind(raw) = "notext"

C18_MissingTextIsEmptyText ==
    \A c \in Conns :
        /\ \A k \in 1..Len(sent[c]) : ~sent[c][k].payload.msg.none
        /\ (lineNo[c] > 0 /\ NoText(raw_line[c])) =>
               /\ Count(linelog[c], IsExceptionRecord) = 0
               /\ AtRest(c) => evaluated[c] = 1..Len(RULES)

\* C18, the rules: no rule is evaluated for such a line and an exception
\* is logged
C18_RulesNotEvaluated ==
    \E c \in Conns :
        /\ RULES = <<Compiled(RuleDisk), Compiled(RuleErr)>>
        /\ ~TEST_MODE
        /\ received[c] = <<LineNoMsg>>
        /\ pc[c] = "read"
        /\ evaluated[c] = {}
        /\ nErr[c] = 1
        /\ Count(linelog[c], IsExceptionRecord) = 1

\* C18, the payload: the test notification of such a line carries None
C18_PayloadWithoutText ==
    \E c \in Conns :
        /\ TEST_MODE /\ ~TEST_WEBHOOK.none
        /\ RULES = <<>>
        /\ received[c] = <<LineNoMsg>>
        /\ pc[c] = "read"
        /\ Len(sent[c]) = 1
        /\ sent[c][1].payload.msg = None

=============================================================================
